---- MODULE Spec2Model ----
(***************************************************************************)
(* Model of main.py: the POST /api/test-email handler test_email, the      *)
(* template builders and the Gmail dispatcher send_email_gmail.            *)
(*                                                                         *)
(* A Python str is a sequence of text segments (the empty str is <<>>), so *)
(* that an f-string is a concatenation and "contains" is decidable.  An    *)
(* Optional[str] is a record [present, val].                               *)
(***************************************************************************)
EXTENDS Integers, Sequences, FiniteSets, TLC

\* How many requests one behaviour of the service handles, one after another.
MaxRequests == 2

(***************************** strings **********************************)

Str(s) == IF s = "" THEN <<>> ELSE <<s>>

None == [present |-> FALSE, val |-> <<>>]
Some(v) == [present |-> TRUE, val |-> v]

\* Python truthiness of an Optional[str]: None and "" are falsy.
Falsy(o) == (~o.present) \/ o.val = <<>>

Contains(body, part) ==
    \E i \in 1..Len(body) : \E j \in i..Len(body) : SubSeq(body, i, j) = part

(************************ request schema ********************************)

EmailTypes == {"verification", "password_reset", "custom"}

\* Values a client may put in the JSON body.
RawEmailTypes == EmailTypes \cup {"newsletter"}
ValidEmails == {Str("a@b.com"), Str("test@example.com")}
RawEmails == ValidEmails \cup {Str("not-an-email")}
RawSubjects == {None, Some(Str("")), Some(Str("Test Subject"))}
RawTexts == {None, Some(Str("")), Some(Str("Plain text content"))}
RawHtmls == {None, Some(Str("")), Some(Str("<h1>HTML content</h1>"))}

TestEmailRequest ==
    [to_email : RawEmails, email_type : RawEmailTypes, subject : RawSubjects,
     text_content : RawTexts, html_content : RawHtmls]

\* pydantic accepts the body when to_email has e-mail syntax and email_type
\* is one of the Literal's values.
SchemaValid(r) == r.to_email \in ValidEmails /\ r.email_type \in EmailTypes

(************************ template builders *****************************)

get_verification_email_text(link) ==
    <<"\n    Verify Your Email\n\n    Please click the following link to verify your email address:\n    ">>
    \o link \o
    <<"\n\n    If you did not request this, please ignore this email.\n    ">>

get_verification_email_html(link) ==
    <<"\n    <html>\n        <body>\n            <h2>Verify Your Email</h2>\n            <p>Please click the button below to verify your email address:</p>\n            <a href=\"">>
    \o link \o
    <<"\" style=\"background-color: #4CAF50; color: white; padding: 14px 20px; text-decoration: none; border-radius: 4px; display: inline-block;\">Verify Email</a>\n            <p>If you did not request this, please ignore this email.</p>\n        </body>\n    </html>\n    ">>

get_password_reset_email_text(link) ==
    <<"\n    Password Reset Request\n\n    Please click the following link to reset your password:\n    ">>
    \o link \o
    <<"\n\n    If you did not request this, please ignore this email.\n    ">>

get_password_reset_email_html(link) ==
    <<"\n    <html>\n        <body>\n            <h2>Password Reset Request</h2>\n            <p>Please click the button below to reset your password:</p>\n            <a href=\"">>
    \o link \o
    <<"\" style=\"background-color: #f44336; color: white; padding: 14px 20px; text-decoration: none; border-radius: 4px; display: inline-block;\">Reset Password</a>\n            <p>If you did not request this, please ignore this email.</p>\n        </body>\n    </html>\n    ">>

\* The subject literals start with an emoji, written here by its code point.
VerificationSubject == Str("U+1F3E5 Test Verification Email")
VerificationLink == Str("https://example.com/verify?token=TEST_TOKEN_123")
PasswordResetSubject == Str("U+1F512 Test Password Reset Email")
PasswordResetLink == Str("https://example.com/reset?token=TEST_TOKEN_123")

(************************** exceptions and responses ********************)

NoExc == [type |-> "none", status_code |-> 0, detail |-> <<>>]
HTTPException(status, detail) ==
    [type |-> "HTTPException", status_code |-> status, detail |-> detail]
\* Any exception that is not an HTTPException; detail is str(e).
OtherException(desc) == [type |-> "Exception", status_code |-> 0, detail |-> desc]

NoResponse == [status_code |-> 0, success |-> FALSE, body |-> <<>>]
\* The JSON of a SuccessResponse, answered with 200.
SuccessResponse(message) == [status_code |-> 200, success |-> TRUE, body |-> message]
\* What FastAPI answers for an HTTPException that leaves the handler.
ErrorResponse(e) == [status_code |-> e.status_code, success |-> FALSE, body |-> e.detail]
\* What FastAPI answers when the body does not fit TestEmailRequest: the
\* framework's RequestValidationError handler, 422 Unprocessable Entity.
ValidationErrorResponse ==
    [status_code |-> 422, success |-> FALSE, body |-> Str("value is not a valid TestEmailRequest")]

(************************** test_email, pure parts **********************)

CustomFieldsDetail ==
    Str("Custom email type requires subject, text_content, and html_content fields")
InvalidTypeDetail(t) ==
    <<"Invalid email_type: ">> \o Str(t)
    \o <<". Must be 'verification', 'password_reset', or 'custom'">>
SendFailedDetail == Str("Failed to send test email. Check server logs for details.")
UnexpectedDetail(e) == <<"Failed to send test email: ">> \o e.detail

NoContent == [subject |-> <<>>, text_content |-> <<>>, html_content |-> <<>>]

\* Line 156 as "is None" tests: an empty string passes.
CustomIncomplete_OnlyNone(r) ==
    (~r.subject.present) \/ (~r.text_content.present) \/ (~r.html_content.present)

\* Line 156: the custom request lacks a field.
CustomIncomplete(r) ==
    Falsy(r.subject) \/ Falsy(r.text_content) \/ Falsy(r.html_content)

\* Lines 142-169 with canned kinds that let a subject of the request win.
SelectContent_RequestSubjectWins(r) ==
    IF r.email_type = "verification" THEN
        [exc |-> NoExc,
         content |-> [subject |-> IF Falsy(r.subject) THEN VerificationSubject
                                  ELSE r.subject.val,
                      text_content |-> get_verification_email_text(VerificationLink),
                      html_content |-> get_verification_email_html(VerificationLink)]]
    ELSE IF r.email_type = "password_reset" THEN
        [exc |-> NoExc,
         content |-> [subject |-> IF Falsy(r.subject) THEN PasswordResetSubject
                                  ELSE r.subject.val,
                      text_content |-> get_password_reset_email_text(PasswordResetLink),
                      html_content |-> get_password_reset_email_html(PasswordResetLink)]]
    ELSE IF r.email_type = "custom" THEN
        IF CustomIncomplete(r)
        THEN [exc |-> HTTPException(400, CustomFieldsDetail), content |-> NoContent]
        ELSE [exc |-> NoExc,
              content |-> [subject |-> r.subject.val,
                           text_content |-> r.text_content.val,
                           html_content |-> r.html_content.val]]
    ELSE [exc |-> HTTPException(400, InvalidTypeDetail(r.email_type)),
          content |-> NoContent]

\* Lines 142-169: the content for the request, or the exception raised.
SelectContent(r) ==
    IF r.email_type = "verification" THEN
        [exc |-> NoExc,
         content |-> [subject |-> VerificationSubject,
                      text_content |-> get_verification_email_text(VerificationLink),
                      html_content |-> get_verification_email_html(VerificationLink)]]
    ELSE IF r.email_type = "password_reset" THEN
        [exc |-> NoExc,
         content |-> [subject |-> PasswordResetSubject,
                      text_content |-> get_password_reset_email_text(PasswordResetLink),
                      html_content |-> get_password_reset_email_html(PasswordResetLink)]]
    ELSE IF r.email_type = "custom" THEN
        IF CustomIncomplete(r)
        THEN [exc |-> HTTPException(400, CustomFieldsDetail), content |-> NoContent]
        ELSE [exc |-> NoExc,
              content |-> [subject |-> r.subject.val,
                           text_content |-> r.text_content.val,
                           html_content |-> r.html_content.val]]
    ELSE [exc |-> HTTPException(400, InvalidTypeDetail(r.email_type)),
          content |-> NoContent]

\* Lines 172-177 with the two bodies passed in each other's place.
DispatchArgs_SwappedBodies(r, c) ==
    [to_email |-> r.to_email, subject |-> c.subject,
     text_content |-> c.html_content, html_content |-> c.text_content]

\* Lines 172-177: the keyword arguments of the call of send_email_gmail.
DispatchArgs(r, c) ==
    [to_email |-> r.to_email, subject |-> c.subject,
     text_content |-> c.text_content, html_content |-> c.html_content]

\* Line 179 as "if email_sent is None".
NotSent_IsNone(sent) == sent = "unset"

\* Line 179: "if not email_sent".
NotSent(sent) == sent = "False"

\* Line 189: the message of the success response.
SuccessMessage(r) ==
    <<"Test email (">> \o Str(r.email_type) \o <<") sent successfully to ">> \o r.to_email

\* Lines 192-193 missing: the HTTPException falls into the clause of line 194.
Reraise_Wrapped(e) == HTTPException(500, <<"Failed to send test email: ">> \o e.detail)

\* Lines 192-193: "except HTTPException: raise" hands the exception on.
Reraise(e) == e

\* Lines 194-199: any other exception becomes a 500.
WrapUnexpected(e) == HTTPException(500, UnexpectedDetail(e))

(************************** send_email_gmail, pure parts ****************)

GMAIL_USER == Str("sender@gmail.com")

NoArgs == [to_email |-> <<>>, subject |-> <<>>, text_content |-> <<>>, html_content |-> <<>>]
NoMessage == [From |-> <<>>, To |-> <<>>, Subject |-> <<>>, parts |-> <<>>]

\* Lines 83-92: the multipart/alternative message.
BuildMessage(a) ==
    [From |-> <<"Medical Advisor <">> \o GMAIL_USER \o <<">">>,
     To |-> a.to_email,
     Subject |-> a.subject,
     parts |-> << [subtype |-> "plain", payload |-> a.text_content],
                  [subtype |-> "html", payload |-> a.html_content] >>]

NoConn == [open |-> FALSE, tls |-> FALSE, authed |-> FALSE]

\* Lines 95-104 with login written before starttls.
StepAfter_LoginBeforeTLS(op) ==
    CASE op = "connect" -> "login"
      [] op = "login" -> "starttls"
      [] op = "starttls" -> "send_message"
      [] op = "send_message" -> "quit"
      [] op = "quit" -> "print103"

\* Lines 95-104 in program order: the statement that follows op when op
\* returns normally.
StepAfter(op) ==
    CASE op = "connect" -> "starttls"
      [] op = "starttls" -> "login"
      [] op = "login" -> "send_message"
      [] op = "send_message" -> "quit"
      [] op = "quit" -> "print103"

\* The SMTP calls without the try block's jump: a failure is passed over.
AfterStep_IgnoreFailure(op, ok) == StepAfter(op)

\* The try block: an exception in any statement jumps to line 106.
AfterStep(op, ok) == IF ok THEN StepAfter(op) ELSE "except"

(****************************** state ***********************************)

VARIABLES
    handled,      \* requests received so far
    pc,           \* position of the request in the framework and in test_email
    request,      \* the TestEmailRequest of the current request
    content,      \* test_email's locals subject, text_content, html_content
    exc,          \* the exception in flight inside test_email
    email_sent,   \* test_email's local email_sent: "unset", "True" or "False"
    response,     \* the HTTP response of the current request
    responses,    \* how many responses the current request has got
    calls,        \* how often the current request has called send_email_gmail
    dpc,          \* position inside send_email_gmail
    args,         \* the arguments of the current call of send_email_gmail
    message,      \* send_email_gmail's local message
    conn,         \* the SMTP connection of the current call (local server)
    steps,        \* the SMTP operations the current call has attempted
    delivered,    \* the message the SMTP server accepted in the current call
    openConns     \* SMTP connections of this process that nobody closed

vars == <<handled, pc, request, content, exc, email_sent, response, responses,
          calls, dpc, args, message, conn, steps, delivered, openConns>>

handlerVars == <<pc, content, exc, email_sent, response, responses, calls>>
dispatcherVars == <<dpc, args, message, conn, steps, delivered, openConns>>

NoRequest ==
    [to_email |-> <<>>, email_type |-> "", subject |-> None,
     text_content |-> None, html_content |-> None]

\* What str(e) may be for an exception that is not an HTTPException.
UnexpectedErrors == {Str("'charmap' codec can't encode character"), Str("[Errno 32] Broken pipe")}

Init ==
    /\ handled = 0
    /\ pc = "idle"
    /\ request = NoRequest
    /\ content = NoContent
    /\ exc = NoExc
    /\ email_sent = "unset"
    /\ response = NoResponse
    /\ responses = 0
    /\ calls = 0
    /\ dpc = "none"
    /\ args = NoArgs
    /\ message = NoMessage
    /\ conn = NoConn
    /\ steps = <<>>
    /\ delivered = NoMessage
    /\ openConns = 0

(***************************** framework ********************************)

\* A client posts a body to /api/test-email.
Receive ==
    /\ pc \in {"idle", "rejected", "responded"}
    /\ handled < MaxRequests
    /\ \E r \in TestEmailRequest : request' = r
    /\ handled' = handled + 1
    /\ pc' = "validate"
    /\ content' = NoContent
    /\ exc' = NoExc
    /\ email_sent' = "unset"
    /\ response' = NoResponse
    /\ responses' = 0
    /\ calls' = 0
    /\ dpc' = "none"
    /\ args' = NoArgs
    /\ message' = NoMessage
    /\ conn' = NoConn
    /\ steps' = <<>>
    /\ delivered' = NoMessage
    /\ UNCHANGED openConns

\* FastAPI parses the body into a TestEmailRequest before it calls test_email.
Validate ==
    /\ pc = "validate"
    /\ IF SchemaValid(request)
       THEN /\ pc' = "print139"
            /\ UNCHANGED <<response, responses>>
       ELSE /\ pc' = "rejected"
            /\ response' = ValidationErrorResponse
            /\ responses' = responses + 1
    /\ UNCHANGED <<handled, request, content, exc, email_sent, calls>>
    /\ UNCHANGED dispatcherVars

(***************************** test_email *******************************)

\* Line 139.
Print139 ==
    /\ pc = "print139"
    /\ pc' = "select"
    /\ UNCHANGED <<handled, request, content, exc, email_sent, response, responses, calls>>
    /\ UNCHANGED dispatcherVars

\* Lines 142-169.
Select ==
    /\ pc = "select"
    /\ LET s == SelectContent(request) IN
         /\ content' = s.content
         /\ exc' = s.exc
         /\ pc' = IF s.exc = NoExc THEN "call" ELSE "except_http"
    /\ UNCHANGED <<handled, request, email_sent, response, responses, calls>>
    /\ UNCHANGED dispatcherVars

\* Lines 172-177 and 81-92: the call enters send_email_gmail, which builds
\* the message.
CallDispatcher ==
    /\ pc = "call"
    /\ pc' = "dispatch"
    /\ calls' = calls + 1
    /\ args' = DispatchArgs(request, content)
    /\ message' = BuildMessage(DispatchArgs(request, content))
    /\ dpc' = "connect"
    /\ UNCHANGED <<handled, request, content, exc, email_sent, response, responses>>
    /\ UNCHANGED <<conn, steps, delivered, openConns>>

\* Lines 179-183.
CheckSent ==
    /\ pc = "check"
    /\ IF NotSent(email_sent)
       THEN /\ exc' = HTTPException(500, SendFailedDetail)
            /\ pc' = "except_http"
       ELSE /\ pc' = "print185"
            /\ UNCHANGED exc
    /\ UNCHANGED <<handled, request, content, email_sent, response, responses, calls>>
    /\ UNCHANGED dispatcherVars

\* Line 185.
Print185 ==
    /\ pc = "print185"
    /\ pc' = "return"
    /\ UNCHANGED <<handled, request, content, exc, email_sent, response, responses, calls>>
    /\ UNCHANGED dispatcherVars

\* Lines 187-190.
ReturnSuccess ==
    /\ pc = "return"
    /\ response' = SuccessResponse(SuccessMessage(request))
    /\ responses' = responses + 1
    /\ pc' = "responded"
    /\ UNCHANGED <<handled, request, content, exc, email_sent, calls>>
    /\ UNCHANGED dispatcherVars

\* Lines 192-193: the HTTPException leaves the handler and FastAPI answers it.
ExceptHTTPException ==
    /\ pc = "except_http"
    /\ exc' = Reraise(exc)
    /\ response' = ErrorResponse(Reraise(exc))
    /\ responses' = responses + 1
    /\ pc' = "responded"
    /\ UNCHANGED <<handled, request, content, email_sent, calls>>
    /\ UNCHANGED dispatcherVars

\* Lines 194-199: the print of line 195 is inside the handler of the last
\* except clause; the HTTPException of line 196 leaves the handler.
ExceptException ==
    /\ pc = "except_exception"
    /\ exc' = WrapUnexpected(exc)
    /\ response' = ErrorResponse(WrapUnexpected(exc))
    /\ responses' = responses + 1
    /\ pc' = "responded"
    /\ UNCHANGED <<handled, request, content, email_sent, calls>>
    /\ UNCHANGED dispatcherVars

(*************************** send_email_gmail ***************************)

\* One entry of steps: the operation, whether it returned normally, and the
\* connection it was attempted on.
Attempt(op, ok) == [op |-> op, ok |-> ok, on |-> conn]

\* Line 95: smtplib.SMTP('smtp.gmail.com', 587, timeout=10).
Connect ==
    /\ pc = "dispatch" /\ dpc = "connect"
    /\ \E ok \in BOOLEAN :
         /\ steps' = Append(steps, Attempt("connect", ok))
         /\ conn' = IF ok THEN [open |-> TRUE, tls |-> FALSE, authed |-> FALSE] ELSE conn
         /\ openConns' = IF ok THEN openConns + 1 ELSE openConns
         /\ dpc' = AfterStep("connect", ok)
    /\ UNCHANGED <<handled, request, args, message, delivered>>
    /\ UNCHANGED handlerVars

\* Line 96: server.starttls().
StartTLS ==
    /\ pc = "dispatch" /\ dpc = "starttls"
    /\ \E ok \in BOOLEAN :
         /\ steps' = Append(steps, Attempt("starttls", ok))
         /\ conn' = IF ok THEN [conn EXCEPT !.tls = TRUE] ELSE conn
         /\ dpc' = AfterStep("starttls", ok)
    /\ UNCHANGED <<handled, request, args, message, delivered, openConns>>
    /\ UNCHANGED handlerVars

\* Line 97: server.login(GMAIL_USER, GMAIL_APP_PASSWORD).
Login ==
    /\ pc = "dispatch" /\ dpc = "login"
    /\ \E ok \in BOOLEAN :
         /\ steps' = Append(steps, Attempt("login", ok))
         /\ conn' = IF ok THEN [conn EXCEPT !.authed = TRUE] ELSE conn
         /\ dpc' = AfterStep("login", ok)
    /\ UNCHANGED <<handled, request, args, message, delivered, openConns>>
    /\ UNCHANGED handlerVars

\* Line 100: server.send_message(message).
SendMessage ==
    /\ pc = "dispatch" /\ dpc = "send_message"
    /\ \E ok \in BOOLEAN :
         /\ steps' = Append(steps, Attempt("send_message", ok))
         /\ delivered' = IF ok THEN message ELSE delivered
         /\ dpc' = AfterStep("send_message", ok)
    /\ UNCHANGED <<handled, request, args, message, conn, openConns>>
    /\ UNCHANGED handlerVars

\* Line 101: server.quit().
Quit ==
    /\ pc = "dispatch" /\ dpc = "quit"
    /\ \E ok \in BOOLEAN :
         /\ steps' = Append(steps, Attempt("quit", ok))
         /\ conn' = IF ok THEN [conn EXCEPT !.open = FALSE] ELSE conn
         /\ openConns' = IF ok THEN openConns - 1 ELSE openConns
         /\ dpc' = AfterStep("quit", ok)
    /\ UNCHANGED <<handled, request, args, message, delivered>>
    /\ UNCHANGED handlerVars

\* Lines 103-104: print and return True; the handler goes on at line 179.
ReturnTrue ==
    /\ pc = "dispatch" /\ dpc = "print103"
    /\ email_sent' = "True"
    /\ dpc' = "returned"
    /\ pc' = "check"
    /\ UNCHANGED <<handled, request, content, exc, response, responses, calls>>
    /\ UNCHANGED <<args, message, conn, steps, delivered, openConns>>

\* Lines 106-108: except Exception: print and return False.
ReturnFalse ==
    /\ pc = "dispatch" /\ dpc = "except"
    /\ email_sent' = "False"
    /\ dpc' = "returned"
    /\ pc' = "check"
    /\ UNCHANGED <<handled, request, content, exc, response, responses, calls>>
    /\ UNCHANGED <<args, message, conn, steps, delivered, openConns>>

(***************************** specifications ***************************)

HandlerStep ==
    \/ Validate
    \/ Print139
    \/ Select
    \/ CallDispatcher
    \/ CheckSent
    \/ Print185
    \/ ReturnSuccess
    \/ ExceptHTTPException

DispatcherStep ==
    \/ Connect
    \/ StartTLS
    \/ Login
    \/ SendMessage
    \/ Quit
    \/ ReturnTrue
    \/ ReturnFalse

Next == Receive \/ HandlerStep \/ DispatcherStep

Spec == Init /\ [][Next]_vars

\* The statements of test_email's try block that run in the handler itself.
TryBody == {"print139", "select", "call", "check", "print185", "return"}

\* A statement of the try block raises an exception that is not an
\* HTTPException; control goes to the except clause of line 194.
RaiseUnexpected ==
    /\ pc \in TryBody
    /\ \E d \in UnexpectedErrors : exc' = OtherException(d)
    /\ pc' = "except_exception"
    /\ UNCHANGED <<handled, request, content, email_sent, response, responses, calls>>
    /\ UNCHANGED dispatcherVars

Progress == HandlerStep \/ DispatcherStep \/ RaiseUnexpected \/ ExceptException

FaultNext == Next \/ RaiseUnexpected \/ ExceptException

\* Every statement of the handler returns or raises: the SMTP calls are
\* bounded by the socket timeout of line 95.
FaultSpec == Init /\ [][FaultNext]_vars /\ WF_vars(Progress)

(******************************* properties *****************************)

\* The current request has passed schema validation and entered test_email.
Entered == pc \notin {"idle", "validate", "rejected"}

\* send_email_gmail has been called for the current request.
Called == pc \in {"dispatch", "check", "print185", "return", "except_http",
                  "except_exception", "responded"} /\ calls > 0

Absent(o) == (~o.present) \/ o.val = <<>>

\* C1: a custom request that lacks subject, text_content or html_content (absent
\* or empty) is answered with 400, never with 200 or 500, and
\* send_email_gmail is not called for it, so no SMTP step is attempted.
C1_IncompleteCustomRejected ==
    (/\ Entered
     /\ request.email_type = "custom"
     /\ Absent(request.subject) \/ Absent(request.text_content) \/ Absent(request.html_content))
    => /\ calls = 0
       /\ dpc = "none"
       /\ steps = <<>>
       /\ conn = NoConn
       /\ response.status_code \notin {200, 500}
       /\ pc = "responded" => response.status_code = 400 /\ ~response.success

C1_Witness ==
    /\ pc = "responded"
    /\ request.email_type = "custom"
    /\ request.subject = Some(<<"Test Subject">>)
    /\ request.text_content = Some(<<"Plain text content">>)
    /\ request.html_content = Some(<<>>)
    /\ response.status_code = 400

\* C2: once send_email_gmail has returned, its boolean alone decides the
\* response: False gives 500 with the generic detail and no success
\* response; True gives 200, success = true and the message
\* "Test email (<email_type>) sent successfully to <to_email>".
C2_ResponseFollowsDispatcher ==
    (pc = "responded" /\ calls > 0)
    => /\ email_sent \in {"True", "False"}
       /\ email_sent = "False" =>
            /\ response.status_code = 500
            /\ ~response.success
            /\ response.body = <<"Failed to send test email. Check server logs for details.">>
       /\ email_sent = "True" =>
            /\ response.status_code = 200
            /\ response.success
            /\ response.body = <<"Test email (", request.email_type,
                                 ") sent successfully to ">> \o request.to_email
            /\ Contains(response.body, <<request.email_type>>)
            /\ Contains(response.body, request.to_email)

C2_Witness ==
    /\ pc = "responded"
    /\ calls = 1
    /\ email_sent = "False"
    /\ response.status_code = 500
    /\ request.email_type = "password_reset"

\* C3: a request whose email_type is not verification, password_reset or
\* custom is rejected by schema validation with status 400, before content
\* selection and without a call of send_email_gmail.
C3_InvalidTypeAnswered400 ==
    (/\ pc \notin {"idle", "validate"}
     /\ request.email_type \notin {"verification", "password_reset", "custom"})
    => /\ pc = "rejected"
       /\ response.status_code = 400
       /\ calls = 0
       /\ content = NoContent

\* C4: send_email_gmail always returns a boolean to its caller, whatever the
\* SMTP steps do; after a failed step it returns False and attempts no step
\* again.
C4_DispatcherReturnsBoolean ==
    /\ \A i \in 1..Len(steps) : ~steps[i].ok => i = Len(steps)
    /\ \A i, j \in 1..Len(steps) : steps[i].op = steps[j].op => i = j
    /\ calls > 0 => exc.type # "Exception"
    /\ dpc = "returned" =>
         /\ email_sent \in {"True", "False"}
         /\ pc # "dispatch"
         /\ (\E i \in 1..Len(steps) : ~steps[i].ok) => email_sent = "False"
         /\ (\A i \in 1..Len(steps) : steps[i].ok) => email_sent = "True" /\ Len(steps) = 5

C4_Witness ==
    /\ dpc = "returned"
    /\ email_sent = "False"
    /\ Len(steps) = 3
    /\ steps[3].op = "login"
    /\ ~steps[3].ok

\* C5: for a custom request with subject, text_content and html_content all
\* present and non-empty, send_email_gmail is called exactly once, with the
\* request's to_email, subject, text_content and html_content unchanged.
C5_CustomPassedVerbatim ==
    (/\ Entered
     /\ request.email_type = "custom"
     /\ ~Absent(request.subject)
     /\ ~Absent(request.text_content)
     /\ ~Absent(request.html_content))
    => /\ calls <= 1
       /\ pc \in {"dispatch", "check", "print185", "return", "except_http", "responded"} =>
            /\ calls = 1
            /\ args.to_email = request.to_email
            /\ args.subject = request.subject.val
            /\ args.text_content = request.text_content.val
            /\ args.html_content = request.html_content.val
            /\ message.To = request.to_email
            /\ message.Subject = request.subject.val

C5_Witness ==
    /\ pc = "responded"
    /\ calls = 1
    /\ request.email_type = "custom"
    /\ args.to_email = <<"test@example.com">>
    /\ args.subject = <<"Test Subject">>
    /\ args.text_content = <<"Plain text content">>
    /\ args.html_content = <<"<h1>HTML content</h1>">>

\* C6: for verification and password_reset the subject and the two bodies
\* given to send_email_gmail depend on the kind only: the fixed subject and
\* the templates for the kind's hardcoded link, which both bodies contain,
\* whatever the recipient and whatever subject, text_content and
\* html_content the request carries.
C6_CannedContentFixed ==
    Called =>
      /\ request.email_type = "verification" =>
           /\ args.subject = <<"U+1F3E5 Test Verification Email">>
           /\ args.text_content =
                get_verification_email_text(<<"https://example.com/verify?token=TEST_TOKEN_123">>)
           /\ args.html_content =
                get_verification_email_html(<<"https://example.com/verify?token=TEST_TOKEN_123">>)
           /\ Contains(args.text_content, <<"https://example.com/verify?token=TEST_TOKEN_123">>)
           /\ Contains(args.html_content, <<"https://example.com/verify?token=TEST_TOKEN_123">>)
      /\ request.email_type = "password_reset" =>
           /\ args.subject = <<"U+1F512 Test Password Reset Email">>
           /\ args.text_content =
                get_password_reset_email_text(<<"https://example.com/reset?token=TEST_TOKEN_123">>)
           /\ args.html_content =
                get_password_reset_email_html(<<"https://example.com/reset?token=TEST_TOKEN_123">>)
           /\ Contains(args.text_content, <<"https://example.com/reset?token=TEST_TOKEN_123">>)
           /\ Contains(args.html_content, <<"https://example.com/reset?token=TEST_TOKEN_123">>)

C6_Witness ==
    /\ Called
    /\ request.email_type = "verification"
    /\ request.to_email = <<"a@b.com">>
    /\ request.subject = Some(<<"Test Subject">>)
    /\ request.html_content = Some(<<"<h1>HTML content</h1>">>)
    /\ args.subject = <<"U+1F3E5 Test Verification Email">>

\* C7: every request that enters test_email ends in exactly one response,
\* 200, 400 or 500, with send_email_gmail called at most once; an
\* HTTPException raised in the handler is answered with its own status and
\* detail, and any other exception is answered with 500 and a detail that
\* includes the exception's description.
C7_OneResponse ==
    /\ calls <= 1
    /\ responses <= 1
    /\ pc = "responded" => responses = 1 /\ response.status_code \in {200, 400, 500}
    /\ (Entered /\ pc # "responded") => responses = 0 /\ response = NoResponse

C7_ExceptClauses ==
    /\ pc = "except_http" =>
         /\ pc' = "responded"
         /\ response' = [status_code |-> exc.status_code, success |-> FALSE,
                         body |-> exc.detail]
    /\ pc = "except_exception" =>
         /\ pc' = "responded"
         /\ exc.detail # <<>>
         /\ response'.status_code = 500
         /\ Contains(response'.body, exc.detail)
    /\ (pc' = "except_http" /\ pc # "except_http") =>
         exc'.type = "HTTPException" /\ exc'.status_code \in {400, 500}

C7_HandlerTerminates ==
    /\ []C7_OneResponse
    /\ [][C7_ExceptClauses]_vars
    /\ (pc = "print139") ~> (pc = "responded")

C7_Witness ==
    /\ pc = "responded"
    /\ calls = 1
    /\ response.status_code = 500
    /\ response.body = <<"Failed to send test email: ", "[Errno 32] Broken pipe">>

\* C8: within one call the SMTP steps happen only in the order connect,
\* starttls, login, send_message, quit, each after the previous one
\* succeeded: login only on a connection upgraded to TLS, send_message only
\* after a successful login, and at most one message per call.
C8_StepOrder ==
    /\ Len(steps) <= 5
    /\ \A i \in 1..Len(steps) :
         /\ steps[i].op = <<"connect", "starttls", "login", "send_message", "quit">>[i]
         /\ i > 1 => steps[i - 1].ok
         /\ steps[i].op = "login" => steps[i].on.open /\ steps[i].on.tls
         /\ steps[i].op = "send_message" =>
              steps[i].on.open /\ steps[i].on.tls /\ steps[i].on.authed
    /\ Cardinality({i \in 1..Len(steps) : steps[i].op = "send_message"}) <= 1
    /\ delivered # NoMessage => \E i \in 1..Len(steps) :
                                  steps[i].op = "send_message" /\ steps[i].ok

C8_Witness ==
    /\ dpc = "returned"
    /\ Len(steps) = 5
    /\ steps[5].op = "quit"
    /\ steps[5].ok
    /\ delivered = message

\* C9: send_email_gmail returns True exactly when the message was
\* transmitted during the call, so a 500 answer means that no email was
\* sent, also when quit fails after the transmission.
C9_TrueIffDelivered ==
    /\ dpc = "returned" => (email_sent = "True" <=> delivered # NoMessage)
    /\ (pc = "responded" /\ response.status_code = 500) => delivered = NoMessage

\* C10: every SMTP connection a call opens is closed when the call returns,
\* also when starttls, login or send_message fails.
C10_ConnectionClosedOnReturn ==
    dpc = "returned" => ~conn.open /\ openConns = 0

====
